---- MODULE Spec2Model ----
(***************************************************************************)
(* State-machine model of the EagleWings battery monitor                   *)
(* (enhanced_simulation.py: EnhancedSimulation) and of the standalone      *)
(* mission (simulation.py: safe_command and main).                         *)
(*                                                                         *)
(* Threads are the external callers of the public API and the             *)
(* "BatteryMonitor" threads spawned by start_monitoring.  Every thread has *)
(* a program counter pc[t]; one action is one step of one thread between   *)
(* two points where another thread may interleave.  threading.Lock is not  *)
(* reentrant: Acquire needs lock = NoThread whoever asks.                  *)
(* Time exists only inside _search_charging_spot, as ticks of 0.1 s that   *)
(* advance by the sleeps of the search.                                    *)
(***************************************************************************)
EXTENDS Integers, Sequences, FiniteSets, TLC

(* ------------------------------ bounds -------------------------------- *)
\* the monitoring scenario: external threads calling the public API, and
\* BatteryMonitor threads that can be spawned in one run
PollCallers == 1
PollMonitors == 1
\* the start/stop scenario: threads calling start and stop, and threads
\* that can be spawned
RaceCallers == 2
RaceMonitors == 2
\* search_timeout (ticks of 0.1 s) of the concurrent scenarios
ShortTimeout == 1
\* search_timeout (ticks of 0.1 s) of the search-only scenario
LongTimeout == 25
\* largest `retries` argument given to safe_command
MaxRetries == 4
\* largest `delay` argument given to safe_command
MaxDelay == 2

(* ------------------------- program constants -------------------------- *)
DefaultWarning == 20
DefaultCritical == 10
DefaultCharging == 5
InitialBatteryLevel == 100
\* time.sleep(0.1), time.sleep(1.0), time.sleep(2.0) in ticks of 0.1 s
FrameWaitTicks == 1
RotateSettleTicks == 10
ApproachSettleTicks == 20

\* simulation.py main: the level from which it lands at once (line 72)
\* and the passes of its marker loop (line 80)
LandingBattery == 45
MarkerAttempts == 12
\* the local `battery` of main before get_battery_level has returned
NoBattery == -1

(* ------------------------------ threads ------------------------------- *)
Max(a, b) == IF a >= b THEN a ELSE b
NumCallers == Max(PollCallers, RaceCallers)
MaxMonitors == Max(PollMonitors, RaceMonitors)
NoThread == 0
Callers == 1..NumCallers
Monitors == (NumCallers + 1)..(NumCallers + MaxMonitors)
Threads == Callers \cup Monitors

(* ------------------------------ inputs -------------------------------- *)
\* valid samples tello.get_battery() can return
Levels == {3, 9, 10, 18, 25}
\* what tello.get_battery() can do: return a number (a sample or an
\* out-of-range value), return None, or raise
BatteryValues == Levels \cup {-1, 101}
ReadOutcomes == {"value", "None", "raise"}
\* the keys of BatteryConfig update_config looks for in new_config
ThresholdKeys == {"warning_threshold", "critical_threshold",
                  "charging_threshold"}
\* the values update_config is called with, per key
WarningValues == {DefaultWarning, 30}
CriticalValues == {DefaultCritical}
ChargingValues == {DefaultCharging, 18}
\* a callback slot: None, or a function of the embedding application
CallbackSlots == {"None", "function"}
\* what a callback does when it is invoked: return, raise, or call
\* get_status() of the same instance
CallbackBehaviours == {"returns", "raises", "get_status"}
\* behaviour of a hardware command (streamon, move_forward, rotate_clockwise)
CommandOutcomes == {"ok", "raise"}
\* frame_reader.frame
Frames == {"None", "frame"}
\* aruco_detector.detectMarkers on a frame: ids is None, ids is not None,
\* or an OpenCV error
Detections == {"no_ids", "ids", "raise"}
\* pixel centre of the detected marker
MarkerCentre == "centre"

VARIABLES
    \* EnhancedSimulation fields
    is_monitoring, monitor_thread, lock,
    current_battery_status, last_battery_level,
    charging_spot_found, charging_spot_position,
    warning_threshold, critical_threshold, charging_threshold,
    search_timeout, has_camera,
    battery_callback, charging_callback,
    \* per-thread control state and locals
    pc, battery_level, old_status, new_status, elapsed, result,
    \* history: callback invocations and search starts of the poll under way,
    \* and whether an approach of the search under way lost the marker
    cb_count, search_count, lost_marker,
    \* the dict get_battery_info builds, with the live read it was built from
    battery_info,
    \* safe_command: arguments, invocations so far, return value
    sc_retries, sc_delay, sc_log, sc_slept, sc_result,
    \* simulation.py main: its position, its locals battery, found and
    \* attempts, and whether takeoff succeeded, a land command was issued
    \* after it and drone.end() was called
    main_pc, battery, found, attempts, took_off, land_issued, ended

simVars == <<is_monitoring, monitor_thread, lock,
             current_battery_status, last_battery_level,
             charging_spot_found, charging_spot_position,
             warning_threshold, critical_threshold, charging_threshold,
             search_timeout, has_camera,
             battery_callback, charging_callback,
             pc, battery_level, old_status, new_status, elapsed, result,
             cb_count, search_count, lost_marker, battery_info>>
scVars == <<sc_retries, sc_delay, sc_log, sc_slept, sc_result>>
mainVars == <<main_pc, battery, found, attempts, took_off, land_issued, ended>>
vars == <<simVars, scVars, mainVars>>

\* groups of variables, for the frame conditions
run == <<is_monitoring, monitor_thread>>
batt == <<current_battery_status, last_battery_level>>
spot == <<charging_spot_found, charging_spot_position>>
thresholds == <<warning_threshold, critical_threshold, charging_threshold>>
setup == <<search_timeout, has_camera, battery_callback, charging_callback>>
poll == <<battery_level, old_status, new_status>>
history == <<cb_count, search_count, lost_marker>>


(* ------------------------------ helpers ------------------------------- *)
\* variant: any number get_battery() gives is returned
ValidReadAnyNumber(outcome, b) == outcome = "value"

\* _get_battery_level: the value is returned when get_battery() gave one
\* and 0 <= battery <= 100, None otherwise
ValidRead(outcome, b) == outcome = "value" /\ 0 <= b /\ b <= 100

\* `with self.lock:` entered: the points where a thread waits for the lock,
\* and where it continues once it has it
LockWaitPcs == {"m_lock", "gs_lock", "uc_lock", "r_lock", "bcb_lock", "ccb_lock"}
AfterAcquire(p) ==
    CASE p = "m_lock" -> "m_process"
      [] p = "gs_lock" -> "gs_body"
      [] p = "uc_lock" -> "uc_body"
      [] p = "r_lock" -> "r_found"
      [] p = "bcb_lock" -> "bcb_body"
      [] p = "ccb_lock" -> "ccb_body"

\* the program points inside _search_charging_spot and the functions it calls
SearchLoopPcs == {"s_loop", "s_det_pos", "s_det_found", "s_approach",
                  "a_det_pos", "a_det_found", "s_rotate"}
SearchPcs == {"s_begin"} \cup SearchLoopPcs

\* where _search_charging_spot returns to: _handle_critical_battery, and
\* from there the end of the with block of _process_battery_level, or the
\* caller of manual_charging_search
SearchReturnPc(t) == IF t \in Monitors THEN "m_exit" ELSE "idle"

\* result[t]: the operation of thread t that returned a value last, and the
\* value
NoResult == <<"none", FALSE>>

\* battery_info[t] before thread t has called get_battery_info
NoInfo == [called |-> FALSE, read |-> "None", battery |-> -1,
           current_level |-> InitialBatteryLevel,
           is_low |-> FALSE, is_critical |-> FALSE]

\* a monitor thread that has been started and has not left its loop
Alive(t) == pc[t] \notin {"absent", "unborn", "dead"}

(* ------------------------- classification ----------------------------- *)
\* variant: strict comparisons
ClassifyStrict(level, charging, critical, warning) ==
    IF level < charging THEN "critical"
    ELSE IF level < critical THEN "critical"
    ELSE IF level < warning THEN "warning"
    ELSE "normal"

\* the if/elif chain of _process_battery_level
Classify(level, charging, critical, warning) ==
    IF level <= charging THEN "critical"
    ELSE IF level <= critical THEN "critical"
    ELSE IF level <= warning THEN "warning"
    ELSE "normal"

(* --------------------------- lock acquisition ------------------------- *)
\* threading.Lock.acquire(): blocks until the lock is free, also when the
\* asking thread is the one that holds it
Acquire(t) ==
    /\ pc[t] \in LockWaitPcs
    /\ lock = NoThread
    /\ lock' = t
    /\ pc' = [pc EXCEPT ![t] = AfterAcquire(pc[t])]
    /\ UNCHANGED <<run, batt, spot, thresholds, setup, poll, elapsed, result,
                   history, battery_info, scVars, mainVars>>

(* --------------------------- monitor thread --------------------------- *)
\* while self.is_monitoring: flag cleared, the thread function returns
MonitorLoopExit(t) ==
    /\ pc[t] = "m_loop"
    /\ ~is_monitoring
    /\ pc' = [pc EXCEPT ![t] = "dead"]
    /\ UNCHANGED <<run, lock, batt, spot, thresholds, setup, poll, elapsed,
                   result, history, battery_info, scVars, mainVars>>

\* one pass of the loop head: flag set, _get_battery_level().  A sample in
\* 0..100 goes on to _process_battery_level; None, an out-of-range value or
\* an exception gives None, and the cycle is skipped: line 136 is false
\* and the thread is at the sleep of line 139
MonitorPoll(t) ==
    /\ pc[t] = "m_loop"
    /\ is_monitoring
    /\ \E outcome \in ReadOutcomes, b \in BatteryValues :
         IF ValidRead(outcome, b)
         THEN /\ battery_level' = [battery_level EXCEPT ![t] = b]
              /\ pc' = [pc EXCEPT ![t] = "m_lock"]
         ELSE /\ UNCHANGED battery_level
              /\ pc' = [pc EXCEPT ![t] = "m_sleep"]
    /\ UNCHANGED <<run, lock, batt, spot, thresholds, setup, old_status,
                   new_status, elapsed, result, history, battery_info, scVars, mainVars>>

\* time.sleep(check_interval) of a skipped cycle is over: back to the loop
\* head
MonitorSleep(t) ==
    /\ pc[t] = "m_sleep"
    /\ pc' = [pc EXCEPT ![t] = "m_loop"]
    /\ UNCHANGED <<run, lock, batt, spot, thresholds, setup, poll, elapsed,
                   result, history, battery_info, scVars, mainVars>>

\* where _process_battery_level goes after the battery callback
AfterBatteryCallback(status) ==
    IF status = "critical" THEN "m_crit" ELSE "m_exit"

\* variant: the callback is invoked outside the status comparison
ProcessWithCallbackOnEveryPoll(t) ==
    /\ pc[t] = "m_process"
    /\ lock = t
    /\ last_battery_level' = battery_level[t]
    /\ LET ns == Classify(battery_level[t], charging_threshold,
                          critical_threshold, warning_threshold)
       IN /\ old_status' = [old_status EXCEPT ![t] = current_battery_status]
          /\ new_status' = [new_status EXCEPT ![t] = ns]
          /\ current_battery_status' = ns
          /\ pc' = [pc EXCEPT ![t] = "m_cb"]
    /\ cb_count' = [cb_count EXCEPT ![t] = 0]
    /\ search_count' = [search_count EXCEPT ![t] = 0]
    /\ UNCHANGED <<run, lock, spot, thresholds, setup, battery_level, elapsed,
                   result, lost_marker, battery_info, scVars, mainVars>>

\* variant: the critical handling is outside the status comparison
ProcessWithSearchOnEveryCriticalPoll(t) ==
    /\ pc[t] = "m_process"
    /\ lock = t
    /\ last_battery_level' = battery_level[t]
    /\ LET ns == Classify(battery_level[t], charging_threshold,
                          critical_threshold, warning_threshold)
       IN /\ old_status' = [old_status EXCEPT ![t] = current_battery_status]
          /\ new_status' = [new_status EXCEPT ![t] = ns]
          /\ current_battery_status' = ns
          /\ pc' = [pc EXCEPT ![t] = IF ns # current_battery_status
                                     THEN "m_cb"
                                     ELSE AfterBatteryCallback(ns)]
    /\ cb_count' = [cb_count EXCEPT ![t] = 0]
    /\ search_count' = [search_count EXCEPT ![t] = 0]
    /\ UNCHANGED <<run, lock, spot, thresholds, setup, battery_level, elapsed,
                   result, lost_marker, battery_info, scVars, mainVars>>

\* variant: the thresholds are those the instance was constructed with
ProcessWithInitialThresholds(t) ==
    /\ pc[t] = "m_process"
    /\ lock = t
    /\ last_battery_level' = battery_level[t]
    /\ LET ns == Classify(battery_level[t], DefaultCharging, DefaultCritical,
                          DefaultWarning)
       IN /\ old_status' = [old_status EXCEPT ![t] = current_battery_status]
          /\ new_status' = [new_status EXCEPT ![t] = ns]
          /\ IF ns # current_battery_status
             THEN /\ current_battery_status' = ns
                  /\ pc' = [pc EXCEPT ![t] = "m_cb"]
             ELSE /\ UNCHANGED current_battery_status
                  /\ pc' = [pc EXCEPT ![t] = "m_exit"]
    /\ cb_count' = [cb_count EXCEPT ![t] = 0]
    /\ search_count' = [search_count EXCEPT ![t] = 0]
    /\ UNCHANGED <<run, lock, spot, thresholds, setup, battery_level, elapsed,
                   result, lost_marker, battery_info, scVars, mainVars>>

\* variant: the new status is not stored before the callback is reached
ProcessWithCallbackBeforeStore(t) ==
    /\ pc[t] = "m_process"
    /\ lock = t
    /\ last_battery_level' = battery_level[t]
    /\ LET ns == Classify(battery_level[t], charging_threshold,
                          critical_threshold, warning_threshold)
       IN /\ old_status' = [old_status EXCEPT ![t] = current_battery_status]
          /\ new_status' = [new_status EXCEPT ![t] = ns]
          /\ UNCHANGED current_battery_status
          /\ pc' = [pc EXCEPT ![t] = IF ns # current_battery_status
                                     THEN "m_cb" ELSE "m_exit"]
    /\ cb_count' = [cb_count EXCEPT ![t] = 0]
    /\ search_count' = [search_count EXCEPT ![t] = 0]
    /\ UNCHANGED <<run, lock, spot, thresholds, setup, battery_level, elapsed,
                   result, lost_marker, battery_info, scVars, mainVars>>

\* _process_battery_level under the lock, up to the status comparison
ProcessBatteryLevel(t) ==
    /\ pc[t] = "m_process"
    /\ lock = t
    /\ last_battery_level' = battery_level[t]
    /\ LET ns == Classify(battery_level[t], charging_threshold,
                          critical_threshold, warning_threshold)
       IN /\ old_status' = [old_status EXCEPT ![t] = current_battery_status]
          /\ new_status' = [new_status EXCEPT ![t] = ns]
          /\ IF ns # current_battery_status
             THEN /\ current_battery_status' = ns
                  /\ pc' = [pc EXCEPT ![t] = "m_cb"]
             ELSE /\ UNCHANGED current_battery_status
                  /\ pc' = [pc EXCEPT ![t] = "m_exit"]
    /\ cb_count' = [cb_count EXCEPT ![t] = 0]
    /\ search_count' = [search_count EXCEPT ![t] = 0]
    /\ UNCHANGED <<run, lock, spot, thresholds, setup, battery_level, elapsed,
                   result, lost_marker, battery_info, scVars, mainVars>>

\* if self.battery_callback: try: self.battery_callback(level, new_status).
\* A callback that returns comes back to the monitor, one that raises
\* lands in the except of line 183, and one that calls get_status() waits
\* for the lock inside the callback
BatteryCallback(t) ==
    /\ pc[t] = "m_cb"
    /\ IF battery_callback = "None"
       THEN /\ UNCHANGED cb_count
            /\ pc' = [pc EXCEPT ![t] = AfterBatteryCallback(new_status[t])]
       ELSE /\ cb_count' = [cb_count EXCEPT ![t] = @ + 1]
            /\ \E does \in CallbackBehaviours :
                 pc' = [pc EXCEPT
                          ![t] = CASE does = "get_status" -> "bcb_lock"
                                   [] does = "raises" -> "bcb_except"
                                   [] does = "returns" ->
                                        AfterBatteryCallback(new_status[t])]
    /\ UNCHANGED <<run, lock, batt, spot, thresholds, setup, poll, elapsed,
                   result, search_count, lost_marker, battery_info, scVars, mainVars>>

\* variant: the exception of the battery callback leaves
\* _process_battery_level
BatteryCallbackExceptLeaves(t) ==
    /\ pc[t] = "bcb_except"
    /\ pc' = [pc EXCEPT ![t] = "m_exit"]
    /\ UNCHANGED <<run, lock, batt, spot, thresholds, setup, poll, elapsed,
                   result, history, battery_info, scVars, mainVars>>

\* except Exception of line 183: the error is logged and
\* _process_battery_level goes on after the try
BatteryCallbackExcept(t) ==
    /\ pc[t] = "bcb_except"
    /\ pc' = [pc EXCEPT ![t] = AfterBatteryCallback(new_status[t])]
    /\ UNCHANGED <<run, lock, batt, spot, thresholds, setup, poll, elapsed,
                   result, history, battery_info, scVars, mainVars>>

\* _handle_critical_battery: the charging callback, then the search
HandleCriticalBattery(t) ==
    /\ pc[t] = "m_crit"
    /\ IF charging_callback = "None"
       THEN pc' = [pc EXCEPT ![t] = "s_begin"]
       ELSE \E does \in CallbackBehaviours :
              pc' = [pc EXCEPT ![t] = CASE does = "get_status" -> "ccb_lock"
                                        [] does = "raises" -> "ccb_except"
                                        [] does = "returns" -> "s_begin"]
    /\ UNCHANGED <<run, lock, batt, spot, thresholds, setup, poll, elapsed,
                   result, history, battery_info, scVars, mainVars>>

\* except Exception of line 196: the error is logged and
\* _handle_critical_battery goes on to the search
ChargingCallbackExcept(t) ==
    /\ pc[t] = "ccb_except"
    /\ pc' = [pc EXCEPT ![t] = "s_begin"]
    /\ UNCHANGED <<run, lock, batt, spot, thresholds, setup, poll, elapsed,
                   result, history, battery_info, scVars, mainVars>>

\* the with block of _process_battery_level is left: the lock is released
\* and the locals of the call are gone; the loop sleeps check_interval and
\* comes round again
ProcessExit(t) ==
    /\ pc[t] = "m_exit"
    /\ lock = t
    /\ lock' = NoThread
    /\ pc' = [pc EXCEPT ![t] = "m_loop"]
    /\ battery_level' = [battery_level EXCEPT ![t] = InitialBatteryLevel]
    /\ old_status' = [old_status EXCEPT ![t] = "normal"]
    /\ new_status' = [new_status EXCEPT ![t] = "normal"]
    /\ cb_count' = [cb_count EXCEPT ![t] = 0]
    /\ search_count' = [search_count EXCEPT ![t] = 0]
    /\ UNCHANGED <<run, batt, spot, thresholds, setup, elapsed, result,
                   lost_marker, battery_info, scVars, mainVars>>


(* ---------------- _search_charging_spot and what it calls ------------- *)
\* how _search_charging_spot hands `value` back to whoever called it (the
\* monitor drops it); start_time is gone with the call
SearchReturn(t, value) ==
    /\ result' = [result EXCEPT
                    ![t] = IF t \in Monitors THEN @ ELSE <<"search", value>>]
    /\ elapsed' = [elapsed EXCEPT ![t] = 0]
    /\ lost_marker' = [lost_marker EXCEPT ![t] = FALSE]
    /\ pc' = [pc EXCEPT ![t] = SearchReturnPc(t)]

\* the camera check, streamon(), get_frame_read(), start_time = time.time()
SearchBegin(t) ==
    /\ pc[t] = "s_begin"
    /\ search_count' = [search_count EXCEPT
                          ![t] = IF t \in Monitors THEN @ + 1 ELSE @]
    /\ IF ~has_camera
       THEN SearchReturn(t, FALSE)
       ELSE \E stream \in CommandOutcomes :
              IF stream = "raise"
              THEN SearchReturn(t, FALSE)
              ELSE /\ elapsed' = [elapsed EXCEPT ![t] = 0]
                   /\ UNCHANGED <<result, lost_marker>>
                   /\ pc' = [pc EXCEPT ![t] = "s_loop"]
    /\ UNCHANGED <<run, lock, batt, spot, thresholds, setup, poll, cb_count,
                   battery_info, battery_info, scVars, mainVars>>

\* variant: while time.time() - start_time <= search_timeout
SearchIterateInclusiveTimeout(t) ==
    /\ pc[t] = "s_loop"
    /\ IF elapsed[t] > search_timeout
       THEN SearchReturn(t, FALSE)
       ELSE \E frame \in Frames, det \in Detections :
              /\ UNCHANGED <<result, lost_marker>>
              /\ IF frame = "None"
                 THEN /\ elapsed' = [elapsed EXCEPT ![t] = @ + FrameWaitTicks]
                      /\ pc' = pc
                 ELSE /\ UNCHANGED elapsed
                      /\ pc' = [pc EXCEPT ![t] = IF det = "ids"
                                                 THEN "s_det_pos"
                                                 ELSE "s_rotate"]
    /\ UNCHANGED <<run, lock, batt, spot, thresholds, setup, poll, cb_count,
                   search_count, battery_info, scVars, mainVars>>

\* one pass of the while loop up to the detection: the timeout test, the
\* frame fetch (no frame: sleep 0.1 and continue), detectMarkers
SearchIterate(t) ==
    /\ pc[t] = "s_loop"
    /\ IF elapsed[t] >= search_timeout
       THEN SearchReturn(t, FALSE)
       ELSE \E frame \in Frames, det \in Detections :
              /\ UNCHANGED <<result, lost_marker>>
              /\ IF frame = "None"
                 THEN /\ elapsed' = [elapsed EXCEPT ![t] = @ + FrameWaitTicks]
                      /\ pc' = pc
                 ELSE /\ UNCHANGED elapsed
                      /\ pc' = [pc EXCEPT ![t] = IF det = "ids"
                                                 THEN "s_det_pos"
                                                 ELSE "s_rotate"]
    /\ UNCHANGED <<run, lock, batt, spot, thresholds, setup, poll, cb_count,
                   search_count, battery_info, scVars, mainVars>>

\* _detect_aruco_markers, ids is not None: self.charging_spot_position = center
DetectWritePosition(t) ==
    /\ pc[t] \in {"s_det_pos", "a_det_pos"}
    /\ charging_spot_position' = MarkerCentre
    /\ pc' = [pc EXCEPT ![t] = IF pc[t] = "s_det_pos"
                               THEN "s_det_found" ELSE "a_det_found"]
    /\ UNCHANGED <<run, lock, batt, charging_spot_found, thresholds, setup,
                   poll, elapsed, result, history, battery_info, scVars, mainVars>>

\* _detect_aruco_markers: self.charging_spot_found = True; return True.  In
\* the loop of the search the approach follows; in the approach the search
\* returns True
DetectWriteFound(t) ==
    /\ pc[t] \in {"s_det_found", "a_det_found"}
    /\ charging_spot_found' = TRUE
    /\ IF pc[t] = "s_det_found"
       THEN /\ pc' = [pc EXCEPT ![t] = "s_approach"]
            /\ UNCHANGED <<result, elapsed, lost_marker>>
       ELSE SearchReturn(t, TRUE)
    /\ UNCHANGED <<run, lock, batt, charging_spot_position, thresholds, setup,
                   poll, cb_count, search_count, battery_info, scVars, mainVars>>

\* _approach_charging_spot: move_forward, sleep 2.0, frame, detectMarkers.
\* An exception of move_forward is caught in the approach, which fails
ApproachChargingSpot(t) ==
    /\ pc[t] = "s_approach"
    /\ \E move \in CommandOutcomes, frame \in Frames, det \in Detections :
         IF move = "raise"
         THEN /\ UNCHANGED <<elapsed, lost_marker>>
              /\ pc' = [pc EXCEPT ![t] = "s_rotate"]
         ELSE /\ elapsed' = [elapsed EXCEPT ![t] = @ + ApproachSettleTicks]
              /\ lost_marker' = [lost_marker EXCEPT
                                   ![t] = @ \/ (frame = "frame" /\ det = "no_ids")]
              /\ pc' = [pc EXCEPT ![t] = IF frame = "frame" /\ det = "ids"
                                         THEN "a_det_pos" ELSE "s_rotate"]
    /\ UNCHANGED <<run, lock, batt, spot, thresholds, setup, poll, result,
                   cb_count, search_count, battery_info, scVars, mainVars>>

\* the end of the loop body: rotate_clockwise(30), sleep 1.0.  An exception
\* of rotate_clockwise reaches the except of the search, which returns False
RotateAndSettle(t) ==
    /\ pc[t] = "s_rotate"
    /\ \E rotate \in CommandOutcomes :
         IF rotate = "raise"
         THEN SearchReturn(t, FALSE)
         ELSE /\ elapsed' = [elapsed EXCEPT ![t] = @ + RotateSettleTicks]
              /\ pc' = [pc EXCEPT ![t] = "s_loop"]
              /\ UNCHANGED <<result, lost_marker>>
    /\ UNCHANGED <<run, lock, batt, spot, thresholds, setup, poll, cb_count,
                   search_count, battery_info, scVars, mainVars>>


(* ------------------------------ public API ---------------------------- *)
\* the monitor thread ids not used yet; start_monitoring takes the smallest
Unborn == {m \in Monitors : pc[m] = "unborn"}
Starting == {c \in Callers : pc[c] \in {"st_set", "st_spawn"}}

\* variant: no test of is_monitoring
StartWithoutCheck(c) ==
    /\ pc[c] = "idle"
    /\ Cardinality(Unborn) > Cardinality(Starting)
    /\ pc' = [pc EXCEPT ![c] = "st_set"]
    /\ UNCHANGED <<run, lock, batt, spot, thresholds, setup, poll, elapsed,
                   result, history, battery_info, scVars, mainVars>>

\* start_monitoring, line 110: already monitoring returns False, else go on.
\* A new start is taken only while a thread id is left for it
start_monitoring(c) ==
    /\ pc[c] = "idle"
    /\ IF is_monitoring
       THEN /\ result' = [result EXCEPT ![c] = <<"start", FALSE>>]
            /\ pc' = pc
       ELSE /\ Cardinality(Unborn) > Cardinality(Starting)
            /\ pc' = [pc EXCEPT ![c] = "st_set"]
            /\ UNCHANGED result
    /\ UNCHANGED <<run, lock, batt, spot, thresholds, setup, poll, elapsed,
                   history, battery_info, scVars, mainVars>>

\* start_monitoring, line 114: self.is_monitoring = True
StartSetFlag(c) ==
    /\ pc[c] = "st_set"
    /\ is_monitoring' = TRUE
    /\ pc' = [pc EXCEPT ![c] = "st_spawn"]
    /\ UNCHANGED <<monitor_thread, lock, batt, spot, thresholds, setup, poll,
                   elapsed, result, history, battery_info, scVars, mainVars>>

\* start_monitoring, lines 115-122: the thread is created, stored, started
StartSpawn(c) ==
    /\ pc[c] = "st_spawn"
    /\ LET m == CHOOSE x \in Unborn : \A y \in Unborn : x <= y
       IN /\ monitor_thread' = m
          /\ pc' = [pc EXCEPT ![c] = "idle", ![m] = "m_loop"]
    /\ result' = [result EXCEPT ![c] = <<"start", TRUE>>]
    /\ UNCHANGED <<is_monitoring, lock, batt, spot, thresholds, setup, poll,
                   elapsed, history, battery_info, scVars, mainVars>>

\* stop_monitoring, lines 126-127: the flag is cleared; a live thread is
\* joined
stop_monitoring(c) ==
    /\ pc[c] = "idle"
    /\ is_monitoring' = FALSE
    /\ pc' = [pc EXCEPT ![c] = IF monitor_thread # NoThread
                                  /\ Alive(monitor_thread)
                               THEN "stop_join" ELSE "idle"]
    /\ UNCHANGED <<monitor_thread, lock, batt, spot, thresholds, setup, poll,
                   elapsed, result, history, battery_info, scVars, mainVars>>

\* join(timeout=2.0) returns: the thread has ended or the 2 s are over
StopJoinReturns(c) ==
    /\ pc[c] = "stop_join"
    /\ pc' = [pc EXCEPT ![c] = "idle"]
    /\ UNCHANGED <<run, lock, batt, spot, thresholds, setup, poll, elapsed,
                   result, history, battery_info, scVars, mainVars>>

\* cleanup: stop_monitoring and a log line
cleanup(c) == stop_monitoring(c)

\* get_status, reset_charging_spot_status, update_config: the call reaches
\* `with self.lock:`
get_status(c) ==
    /\ pc[c] = "idle"
    /\ pc' = [pc EXCEPT ![c] = "gs_lock"]
    /\ UNCHANGED <<run, lock, batt, spot, thresholds, setup, poll, elapsed,
                   result, history, battery_info, scVars, mainVars>>

update_config(c) ==
    /\ pc[c] = "idle"
    /\ pc' = [pc EXCEPT ![c] = "uc_lock"]
    /\ UNCHANGED <<run, lock, batt, spot, thresholds, setup, poll, elapsed,
                   result, history, battery_info, scVars, mainVars>>

reset_charging_spot_status(c) ==
    /\ pc[c] = "idle"
    /\ pc' = [pc EXCEPT ![c] = "r_lock"]
    /\ UNCHANGED <<run, lock, batt, spot, thresholds, setup, poll, elapsed,
                   result, history, battery_info, scVars, mainVars>>

\* where get_status returns to: its caller, or the callback that called it
\* and from there the monitor
AfterGetStatus(t) ==
    CASE pc[t] = "gs_body" -> "idle"
      [] pc[t] = "bcb_body" -> AfterBatteryCallback(new_status[t])
      [] pc[t] = "ccb_body" -> "s_begin"

\* get_status under the lock: the snapshot is built, the lock released
GetStatusBody(t) ==
    /\ pc[t] \in {"gs_body", "bcb_body", "ccb_body"}
    /\ lock = t
    /\ lock' = NoThread
    /\ pc' = [pc EXCEPT ![t] = AfterGetStatus(t)]
    /\ UNCHANGED <<run, batt, spot, thresholds, setup, poll, elapsed, result,
                   history, battery_info, scVars, mainVars>>

\* update_config under the lock: the keys present in new_config are
\* applied, the lock released
UpdateConfigBody(c) ==
    /\ pc[c] = "uc_body"
    /\ lock = c
    /\ \E new_config \in SUBSET ThresholdKeys,
          w \in WarningValues, k \in CriticalValues, g \in ChargingValues :
         /\ warning_threshold' = IF "warning_threshold" \in new_config
                                 THEN w ELSE warning_threshold
         /\ critical_threshold' = IF "critical_threshold" \in new_config
                                  THEN k ELSE critical_threshold
         /\ charging_threshold' = IF "charging_threshold" \in new_config
                                  THEN g ELSE charging_threshold
    /\ lock' = NoThread
    /\ pc' = [pc EXCEPT ![c] = "idle"]
    /\ UNCHANGED <<run, batt, spot, setup, poll, elapsed, result, history,
                   battery_info, battery_info, scVars, mainVars>>

\* reset_charging_spot_status under the lock: self.charging_spot_found = False
ResetFound(c) ==
    /\ pc[c] = "r_found"
    /\ lock = c
    /\ charging_spot_found' = FALSE
    /\ pc' = [pc EXCEPT ![c] = "r_pos"]
    /\ UNCHANGED <<run, lock, batt, charging_spot_position, thresholds, setup,
                   poll, elapsed, result, history, battery_info, scVars, mainVars>>

\* self.charging_spot_position = None, and the lock released
ResetPosition(c) ==
    /\ pc[c] = "r_pos"
    /\ lock = c
    /\ charging_spot_position' = "None"
    /\ lock' = NoThread
    /\ pc' = [pc EXCEPT ![c] = "idle"]
    /\ UNCHANGED <<run, batt, charging_spot_found, thresholds, setup, poll,
                   elapsed, result, history, battery_info, scVars, mainVars>>

\* manual_charging_search: return self._search_charging_spot()
manual_charging_search(c) ==
    /\ pc[c] = "idle"
    /\ pc' = [pc EXCEPT ![c] = "s_begin"]
    /\ UNCHANGED <<run, lock, batt, spot, thresholds, setup, poll, elapsed,
                   result, history, battery_info, scVars, mainVars>>

(* ---------------------------- get_battery_info ------------------------ *)
\* variant: a failed live read falls back to the level of construction
InfoLevelWithoutCache(outcome, b) ==
    IF ValidRead(outcome, b) THEN b ELSE InitialBatteryLevel

\* lines 304-307: battery_level = self._get_battery_level(), and
\* self.last_battery_level when that gave None
InfoLevel(outcome, b) ==
    IF ValidRead(outcome, b) THEN b ELSE last_battery_level

\* variant: is_low by a strict comparison
InfoIsLowStrict(level) == level < warning_threshold

\* line 316: battery_level is not None and battery_level <= warning_threshold
InfoIsLow(level) == level <= warning_threshold

\* line 317
InfoIsCritical(level) == level <= critical_threshold

\* what tello.get_battery() can do in get_battery_info: return one of the
\* values or a level on the warning threshold, return None, or raise (no
\* value then)
InfoReads == {<<"value", b>> : b \in BatteryValues \cup {DefaultWarning}}
                \cup {<<"None", -1>>, <<"raise", -1>>}

\* get_battery_info, lines 304-311: the live read, the fallback to the
\* cached level, "current_level" of the dict.  No lock is taken
get_battery_info(c) ==
    /\ pc[c] = "idle"
    /\ \E rd \in InfoReads :
         LET level == InfoLevel(rd[1], rd[2])
         IN /\ battery_level' = [battery_level EXCEPT ![c] = level]
            /\ battery_info' = [battery_info EXCEPT
                                  ![c] = [called |-> TRUE, read |-> rd[1],
                                          battery |-> rd[2],
                                          current_level |-> level,
                                          is_low |-> FALSE,
                                          is_critical |-> FALSE]]
    /\ pc' = [pc EXCEPT ![c] = "bi_low"]
    /\ UNCHANGED <<run, lock, batt, spot, thresholds, setup, old_status,
                   new_status, elapsed, result, history, scVars, mainVars>>

\* line 316: "is_low" of the dict
GetBatteryInfoLow(c) ==
    /\ pc[c] = "bi_low"
    /\ battery_info' = [battery_info EXCEPT
                          ![c].is_low = InfoIsLow(battery_level[c])]
    /\ pc' = [pc EXCEPT ![c] = "bi_crit"]
    /\ UNCHANGED <<run, lock, batt, spot, thresholds, setup, poll, elapsed,
                   result, history, scVars, mainVars>>

\* line 317: "is_critical" of the dict, and the dict is returned
GetBatteryInfoCritical(c) ==
    /\ pc[c] = "bi_crit"
    /\ battery_info' = [battery_info EXCEPT
                          ![c].is_critical = InfoIsCritical(battery_level[c])]
    /\ battery_level' = [battery_level EXCEPT ![c] = InitialBatteryLevel]
    /\ pc' = [pc EXCEPT ![c] = "idle"]
    /\ UNCHANGED <<run, lock, batt, spot, thresholds, setup, old_status,
                   new_status, elapsed, result, history, scVars, mainVars>>

(* ------------------------ simulation.py: safe_command ----------------- *)
\* what one invocation of command_func does: return, raise TelloException,
\* or raise something else
ActionOutcomes == {"ok", "TelloException", "other"}

\* variant: range(retries + 1)
AttemptsWithOneMore(retries) == retries + 1

\* for attempt in range(1, retries + 1): the attempts safe_command may make
Attempts(retries) == retries

\* one pass of the for loop: command_func(*args); return True, or the
\* TelloException is caught and time.sleep(delay) follows; any other
\* exception leaves safe_command
SafeCommandAttempt ==
    /\ sc_result = "running"
    /\ Len(sc_log) < Attempts(sc_retries)
    /\ \E outcome \in ActionOutcomes :
         /\ sc_log' = Append(sc_log, outcome)
         /\ sc_result' = CASE outcome = "ok" -> "true"
                           [] outcome = "TelloException" -> "running"
                           [] outcome = "other" -> "raised"
         /\ sc_slept' = IF outcome = "TelloException"
                        THEN sc_slept + sc_delay ELSE sc_slept
    /\ UNCHANGED <<sc_retries, sc_delay, simVars, mainVars>>

\* the for loop is exhausted: the error is logged, return False
SafeCommandExhausted ==
    /\ sc_result = "running"
    /\ Len(sc_log) >= Attempts(sc_retries)
    /\ sc_result' = "false"
    /\ UNCHANGED <<sc_retries, sc_delay, sc_log, sc_slept, simVars,
                   mainVars>>

(* --------------------------- simulation.py: main --------------------- *)
\* how a safe_command call of main ends: it returns True, it returns False
\* after its retries, or an exception other than TelloException (or a
\* KeyboardInterrupt) leaves it
CommandResults == {"true", "false", "raised"}
\* how get_battery_level ends: it returns the level the drone gave, it
\* returns None after its retries, or an exception leaves it
MissionBatteryValues == {LandingBattery - 1, LandingBattery}
MissionReads == {<<"value", b>> : b \in MissionBatteryValues}
                   \cup {<<"None", NoBattery>>, <<"raised", NoBattery>>}
\* cv2.waitKey(1): the key q, or another key or none
Keys == {"q", "other"}

\* where main goes after a call: on, or into its except clauses
MainAfter(res, on) == IF res = "raised" THEN "except" ELSE on

\* lines 49-53: connect, the first get_battery_level; None aborts
MainConnect ==
    /\ main_pc = "connect"
    /\ \E rd \in MissionReads :
         /\ battery' = rd[2]
         /\ main_pc' = CASE rd[1] = "value" -> "streamon"
                          [] rd[1] = "None" -> "returned"
                          [] rd[1] = "raised" -> "except"
    /\ UNCHANGED <<found, attempts, took_off, land_issued, ended, simVars,
                   scVars>>

\* lines 55-58: safe_command(streamon); False returns
MainStreamOn ==
    /\ main_pc = "streamon"
    /\ \E res \in CommandResults :
         main_pc' = IF res = "false" THEN "returned"
                    ELSE MainAfter(res, "takeoff")
    /\ UNCHANGED <<battery, found, attempts, took_off, land_issued, ended,
                   simVars, scVars>>

\* lines 60-64: safe_command(takeoff); False returns, True is followed by
\* the sleep of 2 s
MainTakeoff ==
    /\ main_pc = "takeoff"
    /\ \E res \in CommandResults :
         /\ took_off' = (res = "true")
         /\ main_pc' = IF res = "false" THEN "returned"
                       ELSE MainAfter(res, "check")
    /\ UNCHANGED <<battery, found, attempts, land_issued, ended, simVars,
                   scVars>>

\* lines 66-78: the second get_battery_level and the choice between
\* landing and the marker search
MainCheckBattery ==
    /\ main_pc = "check"
    /\ \E rd \in MissionReads :
         /\ battery' = rd[2]
         /\ main_pc' = CASE rd[1] = "raised" -> "except"
                          [] rd[1] = "None" -> "land_emergency"
                          [] rd[1] = "value" ->
                               IF rd[2] >= LandingBattery
                               THEN "land" ELSE "loop"
    /\ found' = FALSE
    /\ attempts' = 0
    /\ UNCHANGED <<took_off, land_issued, ended, simVars, scVars>>

\* lines 69-70: safe_command(land) and return
MainEmergencyLand ==
    /\ main_pc = "land_emergency"
    /\ land_issued' = TRUE
    /\ \E res \in CommandResults : main_pc' = MainAfter(res, "returned")
    /\ UNCHANGED <<battery, found, attempts, took_off, ended, simVars,
                   scVars>>

\* line 74: safe_command(land), then the cleanup
MainLand ==
    /\ main_pc = "land"
    /\ land_issued' = TRUE
    /\ \E res \in CommandResults : main_pc' = MainAfter(res, "cleanup")
    /\ UNCHANGED <<battery, found, attempts, took_off, ended, simVars,
                   scVars>>

\* lines 80-101: the loop test, the frame (None: sleep 0.5, attempts += 1,
\* continue), detectMarkers, the key test, the branch on ids
MainLoop ==
    /\ main_pc = "loop"
    /\ IF ~found /\ attempts < MarkerAttempts
       THEN \E frame \in Frames, det \in Detections, key \in Keys :
              IF frame = "None"
              THEN /\ attempts' = attempts + 1
                   /\ main_pc' = "loop"
              ELSE /\ UNCHANGED attempts
                   /\ main_pc' = CASE det = "raise" -> "except"
                                    [] key = "q" -> "land_quit"
                                    [] det = "ids" -> "approach"
                                    [] OTHER -> "rotate"
       ELSE /\ UNCHANGED attempts
            /\ main_pc' = "after_loop"
    /\ UNCHANGED <<battery, found, took_off, land_issued, ended, simVars,
                   scVars>>

\* lines 97-99: safe_command(land) and break
MainQuitLand ==
    /\ main_pc = "land_quit"
    /\ land_issued' = TRUE
    /\ \E res \in CommandResults : main_pc' = MainAfter(res, "after_loop")
    /\ UNCHANGED <<battery, found, attempts, took_off, ended, simVars,
                   scVars>>

\* lines 103-109, 115: safe_command(move_forward, 30).  True goes on to
\* the landing on the marker; False logs, sets found and counts the pass
MainApproach ==
    /\ main_pc = "approach"
    /\ \E res \in CommandResults :
         /\ main_pc' = CASE res = "true" -> "land_marker"
                          [] res = "false" -> "loop"
                          [] res = "raised" -> "except"
         /\ found' = (res = "false")
         /\ attempts' = IF res = "false" THEN attempts + 1 ELSE attempts
    /\ UNCHANGED <<battery, took_off, land_issued, ended, simVars, scVars>>

\* lines 104-109, 115: sleep 2, safe_command(land), found = True,
\* attempts += 1
MainLandOnMarker ==
    /\ main_pc = "land_marker"
    /\ land_issued' = TRUE
    /\ \E res \in CommandResults :
         /\ main_pc' = MainAfter(res, "loop")
         /\ found' = (res # "raised")
         /\ attempts' = IF res = "raised" THEN attempts ELSE attempts + 1
    /\ UNCHANGED <<battery, took_off, ended, simVars, scVars>>

\* lines 111-115: safe_command(rotate_clockwise, 30), sleep 1,
\* attempts += 1
MainRotate ==
    /\ main_pc = "rotate"
    /\ \E res \in CommandResults :
         /\ main_pc' = MainAfter(res, "loop")
         /\ attempts' = IF res = "raised" THEN attempts ELSE attempts + 1
    /\ UNCHANGED <<battery, found, took_off, land_issued, ended, simVars,
                   scVars>>

\* lines 117-119: the fallback landing when no marker was found
MainAfterLoop ==
    /\ main_pc = "after_loop"
    /\ IF ~found
       THEN /\ land_issued' = TRUE
            /\ \E res \in CommandResults :
                 main_pc' = MainAfter(res, "cleanup")
       ELSE /\ UNCHANGED land_issued
            /\ main_pc' = "cleanup"
    /\ UNCHANGED <<battery, found, attempts, took_off, ended, simVars,
                   scVars>>

\* lines 122-125: safe_command(streamoff), destroyAllWindows, drone.end()
MainCleanup ==
    /\ main_pc = "cleanup"
    /\ \E res \in CommandResults :
         /\ main_pc' = MainAfter(res, "returned")
         /\ ended' = (res # "raised")
    /\ UNCHANGED <<battery, found, attempts, took_off, land_issued, simVars,
                   scVars>>

\* lines 127-139, either except clause: safe_command(land),
\* safe_command(streamoff), destroyAllWindows, drone.end()
MainExcept ==
    /\ main_pc = "except"
    /\ land_issued' = TRUE
    /\ ended' = TRUE
    /\ main_pc' = "returned"
    /\ UNCHANGED <<battery, found, attempts, took_off, simVars, scVars>>

(* --------------------------- specifications --------------------------- *)
\* the instance after __init__ with the default thresholds, in a process
\* with `callers` threads that call its API and room for `monitors`
\* BatteryMonitor threads
InitInstance(callers, monitors) ==
    /\ is_monitoring = FALSE
    /\ monitor_thread = NoThread
    /\ lock = NoThread
    /\ current_battery_status = "normal"
    /\ last_battery_level = InitialBatteryLevel
    /\ charging_spot_found = FALSE
    /\ charging_spot_position = "None"
    /\ warning_threshold = DefaultWarning
    /\ critical_threshold = DefaultCritical
    /\ charging_threshold = DefaultCharging
    /\ pc = [t \in Threads |->
               IF t \in Callers
               THEN IF t <= callers THEN "idle" ELSE "absent"
               ELSE IF t <= NumCallers + monitors THEN "unborn" ELSE "absent"]
    /\ battery_level = [t \in Threads |-> InitialBatteryLevel]
    /\ old_status = [t \in Threads |-> "normal"]
    /\ new_status = [t \in Threads |-> "normal"]
    /\ elapsed = [t \in Threads |-> 0]
    /\ result = [t \in Threads |-> NoResult]
    /\ cb_count = [t \in Threads |-> 0]
    /\ search_count = [t \in Threads |-> 0]
    /\ lost_marker = [t \in Threads |-> FALSE]
    /\ battery_info = [t \in Threads |-> NoInfo]

InitCommand ==
    /\ sc_retries = 0
    /\ sc_delay = 0
    /\ sc_log = <<>>
    /\ sc_slept = 0
    /\ sc_result = "none"

\* main() before it has assigned its locals; main_pc says whether it runs
InitMain(at) ==
    /\ main_pc = at
    /\ battery = NoBattery
    /\ found = FALSE
    /\ attempts = 0
    /\ took_off = FALSE
    /\ land_issued = FALSE
    /\ ended = FALSE

\* the monitoring scenario: the callbacks are those set_callbacks
\* registered before any thread runs
Init ==
    /\ InitInstance(PollCallers, PollMonitors)
    /\ InitCommand
    /\ InitMain("none")
    /\ search_timeout = ShortTimeout
    /\ has_camera = TRUE
    /\ battery_callback \in CallbackSlots
    /\ charging_callback \in CallbackSlots

MonitorStep(t) ==
    \/ MonitorLoopExit(t)
    \/ MonitorPoll(t)
    \/ MonitorSleep(t)
    \/ ProcessBatteryLevel(t)
    \/ BatteryCallback(t)
    \/ BatteryCallbackExcept(t)
    \/ HandleCriticalBattery(t)
    \/ ChargingCallbackExcept(t)
    \/ ProcessExit(t)

SearchStep(t) ==
    \/ SearchBegin(t)
    \/ SearchIterate(t)
    \/ DetectWritePosition(t)
    \/ DetectWriteFound(t)
    \/ ApproachChargingSpot(t)
    \/ RotateAndSettle(t)

CallerStep(c) ==
    \/ start_monitoring(c)
    \/ StartSetFlag(c)
    \/ StartSpawn(c)
    \/ stop_monitoring(c)
    \/ StopJoinReturns(c)
    \/ cleanup(c)
    \/ get_status(c)
    \/ update_config(c)
    \/ UpdateConfigBody(c)
    \/ reset_charging_spot_status(c)
    \/ ResetFound(c)
    \/ ResetPosition(c)
    \/ manual_charging_search(c)

Next ==
    \/ \E t \in Threads : Acquire(t) \/ GetStatusBody(t) \/ SearchStep(t)
    \/ \E t \in Monitors : MonitorStep(t)
    \/ \E c \in Callers : CallerStep(c)

Spec == Init /\ [][Next]_vars

\* the start/stop scenario: callers that only start and stop the monitor;
\* callbacks may be registered
InitRace ==
    /\ InitInstance(RaceCallers, RaceMonitors)
    /\ InitCommand
    /\ InitMain("none")
    /\ search_timeout = ShortTimeout
    /\ has_camera = TRUE
    /\ battery_callback \in CallbackSlots
    /\ charging_callback \in CallbackSlots

NextRace ==
    \/ \E t \in Monitors : Acquire(t) \/ SearchStep(t) \/ MonitorStep(t)
    \/ \E c \in Callers :
         \/ start_monitoring(c)
         \/ StartSetFlag(c)
         \/ StartSpawn(c)
         \/ stop_monitoring(c)
         \/ StopJoinReturns(c)
         \/ cleanup(c)

SpecRace == InitRace /\ [][NextRace]_vars


\* the search scenario: one caller runs manual_charging_search, with or
\* without a camera
InitSearch ==
    /\ InitInstance(1, 0)
    /\ InitCommand
    /\ InitMain("none")
    /\ search_timeout = LongTimeout
    /\ has_camera \in BOOLEAN
    /\ battery_callback = "None"
    /\ charging_callback = "None"

NextSearch == \E c \in Callers : manual_charging_search(c) \/ SearchStep(c)

SpecSearch == InitSearch /\ [][NextSearch]_vars

\* a thread inside the search keeps running: its sleeps end and the calls
\* it makes return or raise
SpecSearchFair ==
    SpecSearch /\ \A c \in Callers : WF_vars(SearchStep(c))

\* the battery-info scenario: one caller reads get_battery_info and changes
\* the thresholds between its reads while the monitor polls; no callback
\* is registered, so no except of a callback is reached
InitInfo ==
    /\ InitInstance(1, 1)
    /\ InitCommand
    /\ InitMain("none")
    /\ search_timeout = ShortTimeout
    /\ has_camera = TRUE
    /\ battery_callback = "None"
    /\ charging_callback = "None"

NextInfo ==
    \/ \E t \in Threads : Acquire(t)
    \/ \E t \in Monitors :
         \/ SearchStep(t)
         \/ MonitorLoopExit(t)
         \/ MonitorPoll(t)
         \/ MonitorSleep(t)
         \/ ProcessBatteryLevel(t)
         \/ BatteryCallback(t)
         \/ HandleCriticalBattery(t)
         \/ ProcessExit(t)
    \/ \E c \in Callers :
         \/ start_monitoring(c)
         \/ StartSetFlag(c)
         \/ StartSpawn(c)
         \/ stop_monitoring(c)
         \/ StopJoinReturns(c)
         \/ update_config(c)
         \/ UpdateConfigBody(c)
         \/ get_battery_info(c)
         \/ GetBatteryInfoLow(c)
         \/ GetBatteryInfoCritical(c)

SpecInfo == InitInfo /\ [][NextInfo]_vars

\* the stop scenario: one caller starts and stops the monitor and reads the
\* status; callbacks may be registered
InitStop ==
    /\ InitInstance(1, 1)
    /\ InitCommand
    /\ InitMain("none")
    /\ search_timeout = ShortTimeout
    /\ has_camera = TRUE
    /\ battery_callback \in CallbackSlots
    /\ charging_callback \in CallbackSlots

NextStop ==
    \/ \E t \in Threads : Acquire(t) \/ GetStatusBody(t)
    \/ \E t \in Monitors : SearchStep(t) \/ MonitorStep(t)
    \/ \E c \in Callers :
         \/ start_monitoring(c)
         \/ StartSetFlag(c)
         \/ StartSpawn(c)
         \/ stop_monitoring(c)
         \/ StopJoinReturns(c)
         \/ get_status(c)

SpecStop == InitStop /\ [][NextStop]_vars

\* a thread that is running keeps running: its sleeps end, the calls it
\* makes return or raise, the body of a with block is left, and a thread
\* waiting for a lock that is free again and again gets it
SpecStopFair ==
    /\ SpecStop
    /\ \A t \in Threads : SF_vars(Acquire(t)) /\ WF_vars(GetStatusBody(t))
    /\ \A m \in Monitors : WF_vars(MonitorStep(m)) /\ WF_vars(SearchStep(m))

\* the charging-spot scenario: two callers, each running manual searches
\* and resets of the charging-spot status
InitSpot ==
    /\ InitInstance(2, 0)
    /\ InitCommand
    /\ InitMain("none")
    /\ search_timeout = ShortTimeout
    /\ has_camera = TRUE
    /\ battery_callback = "None"
    /\ charging_callback = "None"

NextSpot ==
    \E c \in Callers :
        \/ Acquire(c)
        \/ SearchStep(c)
        \/ manual_charging_search(c)
        \/ reset_charging_spot_status(c)
        \/ ResetFound(c)
        \/ ResetPosition(c)

SpecSpot == InitSpot /\ [][NextSpot]_vars

\* the mission scenario: main() of simulation.py runs once
InitMission ==
    /\ InitInstance(0, 0)
    /\ InitCommand
    /\ InitMain("connect")
    /\ search_timeout = ShortTimeout
    /\ has_camera = TRUE
    /\ battery_callback = "None"
    /\ charging_callback = "None"

NextMission ==
    \/ MainConnect
    \/ MainStreamOn
    \/ MainTakeoff
    \/ MainCheckBattery
    \/ MainEmergencyLand
    \/ MainLand
    \/ MainLoop
    \/ MainQuitLand
    \/ MainApproach
    \/ MainLandOnMarker
    \/ MainRotate
    \/ MainAfterLoop
    \/ MainCleanup
    \/ MainExcept

SpecMission == InitMission /\ [][NextMission]_vars

\* the command scenario: safe_command called with retries and delay
InitSafeCommand ==
    /\ InitInstance(0, 0)
    /\ search_timeout = ShortTimeout
    /\ has_camera = TRUE
    /\ battery_callback = "None"
    /\ charging_callback = "None"
    /\ sc_retries \in 0..MaxRetries
    /\ sc_delay \in 0..MaxDelay
    /\ sc_log = <<>>
    /\ sc_slept = 0
    /\ sc_result = "running"
    /\ InitMain("none")

NextSafeCommand == SafeCommandAttempt \/ SafeCommandExhausted

SpecSafeCommand == InitSafeCommand /\ [][NextSafeCommand]_vars


(* ------------------------------- claims ------------------------------- *)
\* the program points of _process_battery_level after the callback test
\* of line 180
PastCallbackPcs == {"bcb_lock", "bcb_body", "bcb_except", "m_crit",
                    "ccb_lock", "ccb_body", "ccb_except", "s_begin", "m_exit"}
                      \cup SearchLoopPcs
\* the program points after the search has been entered
PastSearchStartPcs == {"m_exit"} \cup SearchLoopPcs

\* C1: with a battery callback registered, every poll the monitor processes
\* invokes the callback exactly once when its classification differs from
\* the stored status, and not at all when it is the same: at every point
\* of the processing the number of invocations in this poll is 1 past the
\* callback site of a differing poll, and 0 anywhere else
C1_CallbackOncePerTransition ==
    \A t \in Monitors :
        cb_count[t] = IF /\ pc[t] \in PastCallbackPcs
                         /\ new_status[t] # old_status[t]
                         /\ battery_callback # "None"
                      THEN 1 ELSE 0

\* C1 witness: a poll at 18% that found the status already Warning has
\* been processed to its end without a callback
C1_Witness ==
    \E t \in Monitors :
        /\ pc[t] = "m_exit"
        /\ battery_callback # "None"
        /\ battery_level[t] = 18
        /\ old_status[t] = "warning"
        /\ new_status[t] = "warning"
        /\ cb_count[t] = 0

\* C2: the search is entered exactly once in a poll that takes the status
\* into Critical and never in a poll that finds it Critical already (or
\* that ends in another status): the number of searches entered in this
\* poll is 1 once the search of a poll into Critical has begun, else 0
C2_SearchOncePerCriticalEntry ==
    \A t \in Monitors :
        search_count[t] = IF /\ pc[t] \in PastSearchStartPcs
                             /\ new_status[t] = "critical"
                             /\ old_status[t] # "critical"
                          THEN 1 ELSE 0

\* C2 witness: with the default thresholds a poll at 3% that found the
\* status Critical (as after 9%) has ended without a search
C2_Witness ==
    \E t \in Monitors :
        /\ pc[t] = "m_exit"
        /\ battery_level[t] = 3
        /\ warning_threshold = DefaultWarning
        /\ critical_threshold = DefaultCritical
        /\ charging_threshold = DefaultCharging
        /\ old_status[t] = "critical"
        /\ new_status[t] = "critical"
        /\ search_count[t] = 0

\* C3: the battery-change and critical-entry callbacks run while the
\* monitor does not hold the status guard, so that a get_status() made by
\* the callback is never waiting for a guard its own thread holds
C3_CallbacksOutsideGuard ==
    \A t \in Monitors :
        pc[t] \in {"m_cb", "m_crit", "bcb_lock", "ccb_lock"} => lock # t

\* C4: every write to a SharedStatus field is made by a thread that holds
\* the status guard
C4_WritesUnderGuard ==
    [][\A t \in Threads :
          ( \/ ProcessBatteryLevel(t)
            \/ DetectWritePosition(t)
            \/ DetectWriteFound(t)
            \/ ResetFound(t)
            \/ ResetPosition(t) ) => lock = t]_vars

\* C5: at most one thread is in the poll loop at any time, and exactly
\* one while is_monitoring is set and no start is under way
C5_OnePollThread ==
    LET polling == {m \in Monitors : Alive(m)}
    IN /\ Cardinality(polling) <= 1
       /\ (is_monitoring /\ Starting = {}) => Cardinality(polling) = 1

\* the fields of the instance and the threads other than c
InstanceState == <<run, lock, batt, spot, thresholds, setup>>
Others(c) == [t \in Threads \ {c} |-> <<pc[t], result[t]>>]

\* C6: start_monitoring called while is_monitoring is set returns False,
\* spawns no thread and changes nothing; every step of stop_monitoring
\* (and cleanup) taken while is_monitoring is clear changes nothing of the
\* instance or of the other threads
C6_StartStopIdempotent ==
    [][\A c \in Callers :
          /\ (start_monitoring(c) /\ is_monitoring) =>
                /\ result'[c] = <<"start", FALSE>>
                /\ pc' = pc
                /\ UNCHANGED InstanceState
          /\ ((stop_monitoring(c) \/ cleanup(c) \/ StopJoinReturns(c))
                 /\ ~is_monitoring) =>
                /\ UNCHANGED InstanceState
                /\ Others(c)' = Others(c)]_vars

\* C6 witness: start_monitoring has returned False to a caller while the
\* monitor thread is running
C6_Witness ==
    \E c \in Callers :
        /\ is_monitoring
        /\ pc[c] = "idle"
        /\ result[c] = <<"start", FALSE>>
        /\ \E m \in Monitors : Alive(m)

\* the longest pass of the search loop: the approach and the rotation
MaxIterationTicks == ApproachSettleTicks + RotateSettleTicks

\* C7: a search never runs for search_timeout plus one pass of its loop or
\* longer, and every search that has begun returns
C7_SearchTerminates ==
    /\ [](\A t \in Threads :
             pc[t] \in SearchLoopPcs =>
                elapsed[t] < search_timeout + MaxIterationTicks)
    /\ \A t \in Threads : (pc[t] \in SearchPcs) ~> (pc[t] = "idle")

\* C7 witness: a search with a camera has used up its timeout without a
\* detection and is about to return False
C7_Witness ==
    \E c \in Callers :
        /\ has_camera
        /\ pc[c] = "s_loop"
        /\ elapsed[c] >= search_timeout
        /\ ~charging_spot_found

\* C8: a manual search in which the detector reported a marker before a
\* forward move and none after it returns False only once search_timeout
\* is used up: the failed approach is followed by the rotation and the
\* next passes of the loop
C8_FalseOnlyAtTimeout ==
    [][\A c \in Callers :
          ( /\ pc[c] \in SearchLoopPcs
            /\ lost_marker[c]
            /\ pc'[c] = "idle"
            /\ result'[c] = <<"search", FALSE>> ) =>
          elapsed[c] >= search_timeout]_vars

\* C9: safe_command invokes the action at most `retries` times, never
\* after an invocation that did not raise TelloException, returns True
\* exactly when an invocation succeeded, and returns False after `retries`
\* invocations that all raised TelloException
C9_SafeCommandRetries ==
    /\ Len(sc_log) <= sc_retries
    /\ \A i \in 1..(Len(sc_log) - 1) : sc_log[i] = "TelloException"
    /\ (sc_result = "true") <=> (\E i \in 1..Len(sc_log) : sc_log[i] = "ok")
    /\ ( /\ sc_result # "running"
         /\ Len(sc_log) = sc_retries
         /\ \A i \in 1..Len(sc_log) : sc_log[i] = "TelloException" )
       => sc_result = "false"

\* C9 witness: three invocations raised TelloException and safe_command,
\* called with retries = 3, has returned False
C9_Witness ==
    /\ sc_retries = 3
    /\ sc_log = <<"TelloException", "TelloException", "TelloException">>
    /\ sc_result = "false"

\* the classification the claim states
ClaimedStatus(p) ==
    IF p <= charging_threshold \/ p <= critical_threshold THEN "critical"
    ELSE IF p <= warning_threshold THEN "warning"
    ELSE "normal"

\* C10: from the comparison on and until the poll ends, the stored status
\* is the claimed function of the level of this poll and of the current
\* thresholds, whatever the status was before, and the stored level is the
\* level of this poll; the status is never Charging
C10_StatusIsFunctionOfLevel ==
    /\ current_battery_status \in {"normal", "warning", "critical"}
    /\ \A t \in Monitors :
          (lock = t /\ pc[t] # "m_process") =>
             /\ current_battery_status = ClaimedStatus(battery_level[t])
             /\ last_battery_level = battery_level[t]

\* C10 witness: with charging_threshold above critical_threshold a poll
\* at 18% has been stored as Critical, the status before being Normal
C10_Witness ==
    \E t \in Monitors :
        /\ lock = t
        /\ pc[t] = "m_cb"
        /\ battery_level[t] = 18
        /\ charging_threshold = 18
        /\ old_status[t] = "normal"
        /\ current_battery_status = "critical"

\* C11: a poll processed after update_config has returned is classified
\* with the thresholds that update left, in the same monitor thread: the
\* step that processes a poll stores the claimed status of its level
\* under the thresholds in force at that step, and goes to the callback
\* site exactly when that status differs from the stored one; at the
\* callback site a registered callback is invoked
C11_UpdateUsedByNextPoll ==
    [][\A t \in Monitors :
          /\ (pc[t] = "m_process" /\ pc'[t] # "m_process") =>
                /\ current_battery_status' = ClaimedStatus(battery_level[t])
                /\ (pc'[t] = "m_cb") <=>
                      (ClaimedStatus(battery_level[t]) # current_battery_status)
          /\ (pc[t] = "m_cb" /\ pc'[t] # "m_cb" /\ battery_callback # "None")
                => cb_count'[t] = 1]_vars

\* C11 witness: update_config has left warning_threshold at 30 and the
\* poll of 25% that followed, finding the status Normal, was classified
\* Warning and invoked the callback
C11_Witness ==
    \E t \in Monitors :
        /\ warning_threshold = 30
        /\ critical_threshold = DefaultCritical
        /\ charging_threshold = DefaultCharging
        /\ battery_level[t] = 25
        /\ old_status[t] = "normal"
        /\ new_status[t] = "warning"
        /\ current_battery_status = "warning"
        /\ battery_callback # "None"
        /\ cb_count[t] = 1
        /\ pc[t] = "m_exit"

\* C12: get_battery_info reports the fresh level when the live read gives
\* a value in 0..100 and the cached last_battery_level when it fails, gives
\* None or is out of range, and it never writes last_battery_level; in
\* the dict it returns, is_low and is_critical are the comparisons of the
\* reported level with the thresholds in force when it returns (the
\* caller changes the thresholds only between its calls)
C12_InfoFallsBackToCache ==
    /\ [][\A c \in Callers :
             (pc[c] = "idle" /\ pc'[c] = "bi_low") =>
                LET info == battery_info'[c]
                IN /\ info.current_level =
                         IF info.read = "value" /\ info.battery \in 0..100
                         THEN info.battery ELSE last_battery_level
                   /\ last_battery_level' = last_battery_level]_vars
    /\ [][\A c \in Callers :
             pc[c] \in {"bi_low", "bi_crit"} =>
                /\ last_battery_level' = last_battery_level
                   \/ \E m \in Monitors : pc[m] = "m_process"
                /\ battery_info'[c].current_level
                      = battery_info[c].current_level]_vars
    /\ [][\A c \in Callers :
             (pc[c] = "bi_crit" /\ pc'[c] = "idle") =>
                LET info == battery_info'[c]
                IN /\ info.is_low = (info.current_level <= warning_threshold)
                   /\ info.is_critical
                         = (info.current_level <= critical_threshold)]_vars

\* C12 witness: the monitor has cached 18%, the live read of
\* get_battery_info raised, and the dict returned reports 18%, low and
\* not critical
C12_Witness ==
    \E c \in Callers :
        /\ pc[c] = "idle"
        /\ battery_info[c].called
        /\ battery_info[c].read = "raise"
        /\ last_battery_level = 18
        /\ battery_info[c].current_level = 18
        /\ battery_info[c].is_low
        /\ ~battery_info[c].is_critical

\* C13: in every reachable state the thresholds are ordered,
\* 0 <= charging_threshold < critical_threshold < warning_threshold <= 100:
\* an update that would break the order is not applied
C13_ThresholdsOrdered ==
    /\ 0 <= charging_threshold
    /\ charging_threshold < critical_threshold
    /\ critical_threshold < warning_threshold
    /\ warning_threshold <= 100

\* C14: while a monitor is inside the search it started on Critical entry
\* it does not hold the status guard, so no get_status, update_config or
\* reset_charging_spot_status of another thread is waiting for a guard
\* that the searching monitor holds
C14_CallsNotBlockedBySearch ==
    \A m \in Monitors :
        pc[m] \in SearchPcs =>
           /\ lock # m
           /\ \A c \in Callers :
                 pc[c] \in {"gs_lock", "uc_lock", "r_lock"} => lock # m

\* C15: a monitor thread leaves its loop only at the loop head with the
\* flag cleared, never from inside a search; with the flag cleared it
\* starts no further poll; and once the flag stays cleared (stop was
\* called and no start follows) every monitor thread ends
C15_StopEndsPollLoop ==
    /\ [][\A m \in Monitors :
             /\ (pc'[m] = "dead" /\ pc[m] # "dead") =>
                   (pc[m] = "m_loop" /\ ~is_monitoring)
             /\ (pc[m] = "m_loop" /\ pc'[m] = "m_lock") => is_monitoring]_vars
    /\ (<>[](~is_monitoring /\ Starting = {}))
          => <>[](\A m \in Monitors : ~Alive(m))

\* C16: a rotate or move-forward command that fails does not end the
\* search: the step that issues the command leaves the thread inside the
\* loop of the search, which is left only by the timeout test or by an
\* approach that succeeded
C16_CommandFailureKeepsSearching ==
    [][\A t \in Threads :
          (pc[t] \in {"s_approach", "s_rotate"} /\ pc'[t] # pc[t]) =>
             pc'[t] \in SearchLoopPcs]_vars

\* C17: a poll cycle whose read fails, gives None or gives a value outside
\* 0..100 is skipped: the step to the sleep of the skipped cycle changes no
\* field of the instance, invokes no callback and starts no search, and
\* the thread goes back to the loop head; only a level in 0..100 is handed
\* to the processing, so last_battery_level is in 0..100 in every state
C17_BadReadSkipsCycle ==
    /\ [](last_battery_level \in 0..100)
    /\ [][\A m \in Monitors :
             /\ (pc[m] = "m_loop" /\ pc'[m] = "m_sleep") =>
                   /\ UNCHANGED <<InstanceState, cb_count, search_count>>
                   /\ \A t \in Threads \ {m} : pc'[t] = pc[t]
             /\ (pc[m] = "m_sleep" /\ pc'[m] # "m_sleep") =>
                   pc'[m] = "m_loop"
             /\ (pc[m] = "m_loop" /\ pc'[m] = "m_lock") =>
                   battery_level'[m] \in 0..100]_vars

\* C17 witness: after a poll of 18% was processed, a cycle has been
\* skipped: the thread sleeps, the cached level and the status are those
\* of the poll before, and no lock is held
C17_Witness ==
    \E m \in Monitors :
        /\ pc[m] = "m_sleep"
        /\ is_monitoring
        /\ last_battery_level = 18
        /\ current_battery_status = "warning"
        /\ lock = NoThread

TransitionPcs == {"m_cb", "bcb_lock", "bcb_body", "bcb_except", "m_crit",
                  "ccb_lock", "ccb_body", "ccb_except", "s_begin"}

\* C19: on a status transition the level and the new status are stored
\* before the battery callback is reached and are what it is called with;
\* the critical handling is entered only after the battery callback site
\* and only for the new status Critical, the charging callback is called
\* with the stored level, and the search starts only after the charging
\* callback site; no second monitor is between a detection and its
\* callbacks at the same time, so callbacks fire in the order of detection
C19_TransitionStepsInOrder ==
    /\ [](\A m \in Monitors :
             pc[m] \in TransitionPcs =>
                /\ lock = m
                /\ last_battery_level = battery_level[m]
                /\ current_battery_status = new_status[m]
                /\ new_status[m] # old_status[m])
    /\ [](Cardinality({m \in Monitors : pc[m] \in TransitionPcs}) <= 1)
    /\ [][\A m \in Monitors :
             /\ (pc'[m] = "m_cb" /\ pc[m] # "m_cb") => pc[m] = "m_process"
             /\ (pc'[m] = "m_crit" /\ pc[m] # "m_crit") =>
                   /\ pc[m] \in {"m_cb", "bcb_body", "bcb_except"}
                   /\ new_status[m] = "critical"
                   /\ battery_callback # "None" => cb_count'[m] = 1
             /\ (pc'[m] = "s_begin" /\ pc[m] # "s_begin") =>
                   /\ pc[m] \in {"m_crit", "ccb_body", "ccb_except"}
                   /\ new_status[m] = "critical"
             /\ (pc'[m] = "m_exit" /\ pc[m] \in {"m_cb", "bcb_except"}) =>
                   new_status[m] # "critical"]_vars

\* C19 witness: a monitor that took the status from Normal to Critical at
\* 9% has called the battery callback once and is at the charging
\* callback, holding the lock, while a second monitor thread waits with
\* its own poll for the lock
C19_Witness ==
    \E m, n \in Monitors :
        /\ pc[m] = "m_crit"
        /\ battery_level[m] = 9
        /\ last_battery_level = 9
        /\ old_status[m] = "normal"
        /\ current_battery_status = "critical"
        /\ battery_callback # "None"
        /\ charging_callback # "None"
        /\ cb_count[m] = 1
        /\ search_count[m] = 0
        /\ pc[n] = "m_lock"

\* C20: in every state, whatever the interleaving of detections and
\* resets, charging_spot_found implies that charging_spot_position is set
C20_FoundImpliesPosition ==
    charging_spot_found => charging_spot_position # "None"

\* C21: when main() is over and takeoff had succeeded, a land command was
\* issued before, whatever the battery reading, the frames, the
\* detections and the results of the move and rotate commands; and the
\* marker loop makes at most 12 passes
C21_LandBeforeMissionEnds ==
    /\ attempts \in 0..MarkerAttempts
    /\ (took_off /\ (ended \/ main_pc = "returned")) => land_issued

====
